---- MODULE Spec2Model ----
(***************************************************************************)
(* Model of the Taproot send engine of the murphy wallet:                  *)
(*   - the coin selector and PSBT assembler (src/services/psbt-builder.ts) *)
(*   - the send orchestrator hook useBitcoinTransaction                    *)
(*     (src/unnamed/part_002, lines 613-963)                               *)
(*   - the read-side aggregator hook useBitcoinData                        *)
(*     (src/unnamed/part_002, lines 966-1291)                              *)
(* SpecBuild and SpecSize exercise the pure functions on bounded inputs;   *)
(* Spec is the orchestrator's state machine and SpecData the aggregator's, *)
(* with their asynchronous interleavings; SpecLive is the orchestrator     *)
(* driven one send at a time, with answers that eventually arrive.         *)
(***************************************************************************)
EXTENDS Integers, Sequences, FiniteSets, TLC

VARIABLES
    args,        \* SpecBuild: the arguments of the call under test
    call,        \* SpecBuild: which function has been applied ("none" at first)
    sel,         \* SpecBuild: result of selectUtxos
    built,       \* SpecBuild: result of buildPsbt
    parseIn,     \* SpecBuild: the template handed to parsePsbt
    parsed,      \* SpecBuild: result of parsePsbt
    est,         \* SpecBuild: result of estimateFee
    sizeIn,      \* SpecSize: the arguments of the size or fee call
    sizeOut,     \* SpecSize: its result
    dataState,   \* SpecData: the data hook's BitcoinDataState
    fetchOps,    \* SpecData: the fetchAllAddresses invocations
    apiLog,      \* SpecData: the requests the gateways received
    refreshOps,  \* SpecData: the refreshAddress invocations
    clientReady, \* Spec: clientState === ClientState.Ready
    txState,     \* Spec: the hook's TransactionState
    writes,      \* Spec: the setTxState steps written by the last handler run, in order
    prevStep,    \* Spec: txState.step before the last handler run
    lastOp,      \* Spec: the operation the last handler run belongs to
    send,        \* Spec: the sendBitcoin invocations
    bcast,       \* Spec: the standalone broadcastTransaction invocations
    gateway      \* Spec: raw transactions the gateway's broadcast endpoint received

vars == <<args, call, sel, built, parseIn, parsed, est, sizeIn, sizeOut, dataState, fetchOps,
          apiLog, refreshOps, clientReady, txState, writes, prevStep, lastOp, send, bcast, gateway>>

-----------------------------------------------------------------------------
(* Bounds of the model *)

MaxUtxos == 3
MaxSends == 2
MaxBroadcasts == 1
MaxInputCount == 50
MaxFetches == 1
MaxRefreshes == 2

-----------------------------------------------------------------------------
(* Program constants, psbt-builder.ts lines 11-17 *)

P2TR_INPUT_SIZE == 58
P2TR_OUTPUT_SIZE == 43
BASE_TX_SIZE == 10
DUST_THRESHOLD == 546

-----------------------------------------------------------------------------
(* Addresses.  An address string is represented by what the code reads of  *)
(* it: its prefix, its length, and whether bitcoinjs can decode it.        *)

MainTaproot == [prefix |-> "bc1p", len |-> 62, decodable |-> TRUE]
TestTaproot == [prefix |-> "tb1p", len |-> 62, decodable |-> TRUE]
MainSegwit  == [prefix |-> "bc1q", len |-> 42, decodable |-> TRUE]
BadChecksum == [prefix |-> "bc1p", len |-> 62, decodable |-> FALSE]
OtherChain  == [prefix |-> "ltc1", len |-> 43, decodable |-> FALSE]
ShortTaproot == [prefix |-> "bc1p", len |-> 40, decodable |-> FALSE]

isTaprootAddress(address) == address.prefix \in {"bc1p", "tb1p"}

isTestnetAddress(address) == address.prefix = "tb1p"

\* part_002 lines 253-262
isValidBitcoinAddress(address) ==
    IF isTaprootAddress(address) THEN address.len = 62 ELSE FALSE

getNetwork(address) == IF isTestnetAddress(address) THEN "testnet" ELSE "bitcoin"

\* bitcoin.address.toOutputScript(address, network): throws for an address it
\* cannot decode or whose human-readable part is not the network's.
toOutputScriptOk(address, network) ==
    /\ address.decodable
    /\ (IF address.prefix = "tb1p" THEN "testnet" ELSE "bitcoin") = network

-----------------------------------------------------------------------------
(* Arithmetic *)

\* Math.ceil(size * feeRate) for the rational fee rate num/den, den > 0
MathCeil(size, feeRate) == -((-(size * feeRate.num)) \div feeRate.den)

\* Mutant of estimateTxSize: the change output is always counted.
estimateTxSize_AlwaysTwoOutputs(inputCount, includeChange) ==
    LET outputCount == 2
    IN  BASE_TX_SIZE + inputCount * P2TR_INPUT_SIZE + outputCount * P2TR_OUTPUT_SIZE

estimateTxSize(inputCount, includeChange) ==
    LET outputCount == IF includeChange THEN 2 ELSE 1
    IN  BASE_TX_SIZE + inputCount * P2TR_INPUT_SIZE + outputCount * P2TR_OUTPUT_SIZE

\* psbt-builder.ts lines 247-254
calculateFee(inputCount, includeChange, feeRate) ==
    LET txSize == estimateTxSize(inputCount, includeChange)
    IN  MathCeil(txSize, feeRate)

RECURSIVE SumValues(_)
SumValues(s) == IF s = <<>> THEN 0 ELSE Head(s).value + SumValues(Tail(s))

-----------------------------------------------------------------------------
(* Coin selection, psbt-builder.ts lines 84-141 *)

\* Array.prototype.sort((a, b) => b.value - a.value): stable, value descending
\* Mutant of InsertDesc: the comparator is a.value - b.value (ascending).
RECURSIVE InsertDesc_Ascending(_, _)
InsertDesc_Ascending(u, s) ==
    IF s = <<>> THEN <<u>>
    ELSE IF Head(s).value <= u.value
         THEN <<Head(s)>> \o InsertDesc_Ascending(u, Tail(s))
         ELSE <<u>> \o s

RECURSIVE InsertDesc(_, _)
InsertDesc(u, s) ==
    IF s = <<>> THEN <<u>>
    ELSE IF Head(s).value >= u.value
         THEN <<Head(s)>> \o InsertDesc(u, Tail(s))
         ELSE <<u>> \o s

RECURSIVE SortDescFrom(_, _)
SortDescFrom(acc, s) ==
    IF s = <<>> THEN acc ELSE SortDescFrom(InsertDesc(Head(s), acc), Tail(s))

SortDesc(s) == SortDescFrom(<<>>, s)

NullSelection ==
    [kind |-> "null", utxos |-> <<>>, totalValue |-> 0, fee |-> 0, change |-> 0]

ThrowSelection ==
    [kind |-> "throw", utxos |-> <<>>, totalValue |-> 0, fee |-> 0, change |-> 0]

Continue ==
    [kind |-> "continue", utxos |-> <<>>, totalValue |-> 0, fee |-> 0, change |-> 0]

\* Mutant of Iteration: the no-change case reports the estimated no-change fee
\* instead of the whole remainder.
Iteration_FeeNoChange(selectedUtxos, totalValue, targetAmount, feeRate) ==
    LET feeWithChange == MathCeil(estimateTxSize(Len(selectedUtxos), TRUE), feeRate)
        feeNoChange   == MathCeil(estimateTxSize(Len(selectedUtxos), FALSE), feeRate)
        change        == totalValue - targetAmount - feeWithChange
    IN  IF totalValue >= targetAmount + feeWithChange
        THEN IF change < DUST_THRESHOLD
             THEN IF totalValue >= targetAmount + feeNoChange
                  THEN [kind |-> "ok", utxos |-> selectedUtxos,
                        totalValue |-> totalValue,
                        fee |-> feeNoChange, change |-> 0]
                  ELSE Continue
             ELSE [kind |-> "ok", utxos |-> selectedUtxos, totalValue |-> totalValue,
                   fee |-> feeWithChange, change |-> change]
        ELSE Continue

\* Mutant of Iteration: the dust test is missing, any change is returned.
Iteration_KeepDust(selectedUtxos, totalValue, targetAmount, feeRate) ==
    LET feeWithChange == MathCeil(estimateTxSize(Len(selectedUtxos), TRUE), feeRate)
        change        == totalValue - targetAmount - feeWithChange
    IN  IF totalValue >= targetAmount + feeWithChange
        THEN [kind |-> "ok", utxos |-> selectedUtxos, totalValue |-> totalValue,
              fee |-> feeWithChange, change |-> change]
        ELSE Continue

\* Mutant of Iteration: a prefix is accepted as soon as it covers the
\* no-change fee.
Iteration_NoChangeFallback(selectedUtxos, totalValue, targetAmount, feeRate) ==
    LET feeWithChange == MathCeil(estimateTxSize(Len(selectedUtxos), TRUE), feeRate)
        feeNoChange   == MathCeil(estimateTxSize(Len(selectedUtxos), FALSE), feeRate)
        change        == totalValue - targetAmount - feeWithChange
    IN  IF totalValue >= targetAmount + feeNoChange
        THEN IF change < DUST_THRESHOLD
             THEN [kind |-> "ok", utxos |-> selectedUtxos,
                   totalValue |-> totalValue,
                   fee |-> totalValue - targetAmount, change |-> 0]
             ELSE [kind |-> "ok", utxos |-> selectedUtxos, totalValue |-> totalValue,
                   fee |-> feeWithChange, change |-> change]
        ELSE Continue

\* One iteration of the loop after the push and the addition (lines 106-136):
\* the selection returned, or Continue when the loop goes on.
Iteration(selectedUtxos, totalValue, targetAmount, feeRate) ==
    LET feeWithChange == MathCeil(estimateTxSize(Len(selectedUtxos), TRUE), feeRate)
        feeNoChange   == MathCeil(estimateTxSize(Len(selectedUtxos), FALSE), feeRate)
        change        == totalValue - targetAmount - feeWithChange
    IN  IF totalValue >= targetAmount + feeWithChange
        THEN IF change < DUST_THRESHOLD
             THEN IF totalValue >= targetAmount + feeNoChange
                  THEN [kind |-> "ok", utxos |-> selectedUtxos,
                        totalValue |-> totalValue,
                        fee |-> totalValue - targetAmount, change |-> 0]
                  ELSE Continue
             ELSE [kind |-> "ok", utxos |-> selectedUtxos, totalValue |-> totalValue,
                   fee |-> feeWithChange, change |-> change]
        ELSE Continue

RECURSIVE SelectLoop(_, _, _, _, _)
SelectLoop(rest, selectedUtxos, totalValue, targetAmount, feeRate) ==
    IF rest = <<>> THEN NullSelection
    ELSE LET utxo  == Head(rest)
             selN  == Append(selectedUtxos, utxo)
             total == totalValue + utxo.value
             r     == Iteration(selN, total, targetAmount, feeRate)
         IN  IF r.kind = "ok" THEN r
             ELSE SelectLoop(Tail(rest), selN, total, targetAmount, feeRate)

\* Mutant of selectUtxos: the list is walked in the caller's order, unsorted.
selectUtxos_NoSort(availableUtxos, targetAmount, feeRate, senderAddress, recipientAddress) ==
    IF ~isTaprootAddress(senderAddress) THEN ThrowSelection
    ELSE SelectLoop(availableUtxos, <<>>, 0, targetAmount, feeRate)

selectUtxos(availableUtxos, targetAmount, feeRate, senderAddress, recipientAddress) ==
    IF ~isTaprootAddress(senderAddress) THEN ThrowSelection
    ELSE SelectLoop(SortDesc(availableUtxos), <<>>, 0, targetAmount, feeRate)

\* utxos.filter((u) => u.status.confirmed)
FilterConfirmed(utxos) == SelectSeq(utxos, LAMBDA u : u.confirmed)

-----------------------------------------------------------------------------
(* The template and its wire form.  The builder's in-memory inputs carry    *)
(* {hash, index, witnessUtxo}; the serialised PSBT splits them into the     *)
(* unsigned transaction (outpoints, outputs) and one key-value map per      *)
(* input.  Values are 64-bit on the wire and below 2^53 in the program, so   *)
(* BigInt(value) and Number(value) are exact and carry the value unchanged. *)

EmptyHex == [vin |-> <<>>, vout |-> <<>>, inputMaps |-> <<>>]

\* psbt.toHex()
PsbtToHex(psbt) ==
    [vin  |-> [i \in 1..Len(psbt.inputs) |->
                  [hash |-> psbt.inputs[i].hash, index |-> psbt.inputs[i].index]],
     vout |-> [i \in 1..Len(psbt.outputs) |->
                  [address |-> psbt.outputs[i].address,
                   value |-> psbt.outputs[i].value]],
     inputMaps |-> [i \in 1..Len(psbt.inputs) |->
                  [witnessUtxo |-> <<[script |-> psbt.inputs[i].witnessUtxo.script,
                                      value |-> psbt.inputs[i].witnessUtxo.value]>>,
                   tapKeySig |-> FALSE]]]

\* bitcoin.Psbt.fromHex(hex): the parsed object's data.inputs, txOutputs, inputCount
PsbtFromHex(hex) ==
    [inputCount |-> Len(hex.vin),
     dataInputs |-> hex.inputMaps,
     txOutputs  |-> hex.vout]

RECURSIVE SumWitness(_)
SumWitness(inputs) ==
    IF inputs = <<>> THEN 0
    ELSE (IF Head(inputs).witnessUtxo # <<>>
          THEN Head(inputs).witnessUtxo[1].value ELSE 0) + SumWitness(Tail(inputs))

\* psbt-builder.ts lines 271-302
parsePsbt(psbtHex) ==
    LET psbt        == PsbtFromHex(psbtHex)
        totalInput  == SumWitness(psbt.dataInputs)
        totalOutput == SumValues(psbt.txOutputs)
    IN  [kind        |-> "ok",
         inputCount  |-> psbt.inputCount,
         outputCount |-> Len(psbt.txOutputs),
         totalInput  |-> totalInput,
         totalOutput |-> totalOutput,
         fee         |-> totalInput - totalOutput]

\* A template whose inputs of "missing" carry no witnessUtxo
WithoutWitnessUtxo(hex, missing) ==
    [hex EXCEPT !.inputMaps =
        [i \in 1..Len(hex.inputMaps) |->
            IF i \in missing
            THEN [hex.inputMaps[i] EXCEPT !.witnessUtxo = <<>>]
            ELSE hex.inputMaps[i]]]

NoParse ==
    [kind |-> "none", inputCount |-> 0, outputCount |-> 0, totalInput |-> 0, totalOutput |-> 0, fee |-> 0]

-----------------------------------------------------------------------------
(* buildPsbt, psbt-builder.ts lines 146-227.  The result carries the error  *)
(* thrown (if any) and, as "steps", the phases the call went through.       *)

BuildThrow(error, steps) ==
    [kind |-> "throw", error |-> error, steps |-> steps, psbtHex |-> EmptyHex,
     fee |-> 0, change |-> 0, totalInput |-> 0, inputCount |-> 0, outputCount |-> 0]

NoBuild == BuildThrow("none", <<>>)

BuildSteps == <<"checkSender", "checkAmount", "filterUtxos", "selectUtxos">>

\* Mutant of Assemble: the change output is left out of the template.
Assemble_NoChangeOutput(params, network, selection) ==
    LET inputs == [i \in 1..Len(selection.utxos) |->
                      [hash  |-> selection.utxos[i].txid,
                       index |-> selection.utxos[i].vout,
                       witnessUtxo |-> [script |-> params.senderAddress,
                                        value  |-> selection.utxos[i].value]]]
        outputs == <<[address |-> params.recipientAddress, value |-> params.amount]>>
        psbt == [network |-> network, inputs |-> inputs, outputs |-> outputs]
    IN  [kind |-> "ok", error |-> "none",
         steps |-> BuildSteps \o <<"addInput", "addOutput">>,
         psbtHex |-> PsbtToHex(psbt),
         fee |-> selection.fee,
         change |-> selection.change,
         totalInput |-> selection.totalValue,
         inputCount |-> Len(selection.utxos),
         outputCount |-> IF selection.change > 0 THEN 2 ELSE 1]

\* Mutant of Assemble: the change output is appended before the recipient output.
Assemble_ChangeFirst(params, network, selection) ==
    IF ~toOutputScriptOk(params.senderAddress, network)
    THEN BuildThrow("Invalid sender address", Append(BuildSteps, "addInput"))
    ELSE IF ~toOutputScriptOk(params.recipientAddress, network)
    THEN BuildThrow("Invalid recipient address",
                    BuildSteps \o <<"addInput", "addOutput">>)
    ELSE
    LET inputs == [i \in 1..Len(selection.utxos) |->
                      [hash  |-> selection.utxos[i].txid,
                       index |-> selection.utxos[i].vout,
                       witnessUtxo |-> [script |-> params.senderAddress,
                                        value  |-> selection.utxos[i].value]]]
        recipientOutput == [address |-> params.recipientAddress,
                            value   |-> params.amount]
        changeOutput    == [address |-> params.senderAddress,
                            value   |-> selection.change]
        outputs == IF selection.change > 0
                   THEN <<changeOutput, recipientOutput>>
                   ELSE <<recipientOutput>>
        psbt == [network |-> network, inputs |-> inputs, outputs |-> outputs]
    IN  [kind |-> "ok", error |-> "none",
         steps |-> BuildSteps \o <<"addInput", "addOutput">>,
         psbtHex |-> PsbtToHex(psbt),
         fee |-> selection.fee,
         change |-> selection.change,
         totalInput |-> selection.totalValue,
         inputCount |-> Len(selection.utxos),
         outputCount |-> IF selection.change > 0 THEN 2 ELSE 1]

\* Lines 181-227: the template is created, inputs and outputs are added, and
\* the result is returned with its metadata.
Assemble(params, network, selection) ==
    IF ~toOutputScriptOk(params.senderAddress, network)
    THEN BuildThrow("Invalid sender address", Append(BuildSteps, "addInput"))
    ELSE IF ~toOutputScriptOk(params.recipientAddress, network)
    THEN BuildThrow("Invalid recipient address",
                    BuildSteps \o <<"addInput", "addOutput">>)
    ELSE
    LET inputs == [i \in 1..Len(selection.utxos) |->
                      [hash  |-> selection.utxos[i].txid,
                       index |-> selection.utxos[i].vout,
                       witnessUtxo |-> [script |-> params.senderAddress,
                                        value  |-> selection.utxos[i].value]]]
        recipientOutput == [address |-> params.recipientAddress,
                            value   |-> params.amount]
        changeOutput    == [address |-> params.senderAddress,
                            value   |-> selection.change]
        outputs == IF selection.change > 0
                   THEN <<recipientOutput, changeOutput>>
                   ELSE <<recipientOutput>>
        psbt == [network |-> network, inputs |-> inputs, outputs |-> outputs]
    IN  [kind |-> "ok", error |-> "none",
         steps |-> BuildSteps \o <<"addInput", "addOutput">>,
         psbtHex |-> PsbtToHex(psbt),
         fee |-> selection.fee,
         change |-> selection.change,
         totalInput |-> selection.totalValue,
         inputCount |-> Len(selection.utxos),
         outputCount |-> IF selection.change > 0 THEN 2 ELSE 1]

\* Mutant of buildPsbt: the amount is validated after the coin selection.
buildPsbt_AmountCheckLate(params) ==
    IF ~isTaprootAddress(params.senderAddress)
    THEN BuildThrow("Sender must be a Taproot address", <<"checkSender">>)
    ELSE
    LET network   == getNetwork(params.senderAddress)
        selection == selectUtxos(FilterConfirmed(params.utxos), params.amount,
                                 params.feeRate, params.senderAddress,
                                 params.recipientAddress)
    IN  IF selection.kind # "ok"
        THEN BuildThrow("Insufficient funds",
                        <<"checkSender", "filterUtxos", "selectUtxos">>)
        ELSE IF params.amount < DUST_THRESHOLD
        THEN BuildThrow("Amount too small", BuildSteps)
        ELSE Assemble(params, network, selection)

\* Mutant of buildPsbt: the coin selection runs on the whole list, the
\* unconfirmed UTXOs included.
buildPsbt_NoFilter(params) ==
    IF ~isTaprootAddress(params.senderAddress)
    THEN BuildThrow("Sender must be a Taproot address", <<"checkSender">>)
    ELSE IF params.amount < DUST_THRESHOLD
    THEN BuildThrow("Amount too small", <<"checkSender", "checkAmount">>)
    ELSE
    LET network   == getNetwork(params.senderAddress)
        selection == selectUtxos(params.utxos, params.amount,
                                 params.feeRate, params.senderAddress,
                                 params.recipientAddress)
    IN  IF selection.kind # "ok"
        THEN BuildThrow("Insufficient funds", BuildSteps)
        ELSE Assemble(params, network, selection)

buildPsbt(params) ==
    IF ~isTaprootAddress(params.senderAddress)
    THEN BuildThrow("Sender must be a Taproot address", <<"checkSender">>)
    ELSE IF params.amount < DUST_THRESHOLD
    THEN BuildThrow("Amount too small", <<"checkSender", "checkAmount">>)
    ELSE
    LET network   == getNetwork(params.senderAddress)
        selection == selectUtxos(FilterConfirmed(params.utxos), params.amount,
                                 params.feeRate, params.senderAddress,
                                 params.recipientAddress)
    IN  IF selection.kind # "ok"
        THEN BuildThrow("Insufficient funds", BuildSteps)
        ELSE Assemble(params, network, selection)

-----------------------------------------------------------------------------
(* estimateFee of the send hook, part_002 lines 804-830.  The body has no   *)
(* try/catch: an exception of selectUtxos leaves estimateFee as it is.      *)

\* Mutant of estimateFee: the preview selects from every UTXO, the unconfirmed
\* ones included.
estimateFee_AllUtxos(utxos, fromAddress, toAddress, amount, feeRate) ==
    LET selection == selectUtxos(utxos, amount, feeRate, fromAddress, toAddress)
    IN  IF selection.kind = "throw" THEN [kind |-> "throw", fee |-> 0, change |-> 0]
        ELSE IF selection.kind = "null" THEN [kind |-> "null", fee |-> 0, change |-> 0]
        ELSE [kind |-> "ok", fee |-> selection.fee, change |-> selection.change]

estimateFee(utxos, fromAddress, toAddress, amount, feeRate) ==
    LET selection == selectUtxos(FilterConfirmed(utxos), amount, feeRate,
                                 fromAddress, toAddress)
    IN  IF selection.kind = "throw" THEN [kind |-> "throw", fee |-> 0, change |-> 0]
        ELSE IF selection.kind = "null" THEN [kind |-> "null", fee |-> 0, change |-> 0]
        ELSE [kind |-> "ok", fee |-> selection.fee, change |-> selection.change]

-----------------------------------------------------------------------------
(* The data hook's own coin selection, part_002 lines 1173-1245.  It reads   *)
(* the UTXO list of the address from the hook's address map.                *)

INPUT_SIZE == 68
OUTPUT_SIZE == 31

\* part_002 lines 1173-1188: confirmed UTXOs, largest first
getUtxosForSpending(addresses, address) ==
    IF address \notin DOMAIN addresses THEN <<>>
    ELSE SortDesc(FilterConfirmed(addresses[address].utxos))

\* part_002 lines 1220-1240: the loop over availableUtxos
RECURSIVE HookSelectLoop(_, _, _, _, _)
HookSelectLoop(rest, selectedUtxos, totalInput, targetAmount, feeRate) ==
    IF rest = <<>> THEN NullSelection
    ELSE LET utxo   == Head(rest)
             selN   == Append(selectedUtxos, utxo)
             total  == totalInput + utxo.value
             txSize == BASE_TX_SIZE + Len(selN) * INPUT_SIZE + 2 * OUTPUT_SIZE
             fee    == MathCeil(txSize, feeRate)
             change == total - targetAmount - fee
         IN  IF total >= targetAmount + fee
             THEN [kind |-> "ok", utxos |-> selN, totalValue |-> total,
                   fee |-> fee,
                   change |-> IF change > 546 THEN change ELSE 0]
             ELSE HookSelectLoop(Tail(rest), selN, total, targetAmount, feeRate)

\* part_002 lines 1205-1245; totalValue is the local totalInput, which the
\* hook does not return
hookSelectUtxos(addresses, address, targetAmount, feeRate) ==
    HookSelectLoop(getUtxosForSpending(addresses, address), <<>>, 0,
                   targetAmount, feeRate)

-----------------------------------------------------------------------------
(* Inputs of the pure-function specification *)

UtxoValues == {700, 1300, 2500}

\* All UTXO lists of length <= MaxUtxos; the outpoint of the k-th entry is (k, 0)
UtxoLists ==
    UNION {
      { [k \in 1..n |-> [txid |-> k, vout |-> 0, value |-> f[k][1], confirmed |-> f[k][2]]]
          : f \in [1..n -> UtxoValues \X BOOLEAN] }
      : n \in 0..MaxUtxos }

Amounts == {500, 546, 1000}

FeeRates == {[num |-> 0, den |-> 1], [num |-> 1, den |-> 1],
             [num |-> 3, den |-> 2], [num |-> 5, den |-> 1]}

Senders == {MainTaproot, TestTaproot, MainSegwit, ShortTaproot}

Recipients == {MainTaproot, BadChecksum, MainSegwit}

ArgsSet ==
    [utxos : UtxoLists, senderAddress : Senders, recipientAddress : Recipients,
     amount : Amounts, feeRate : FeeRates]

\* Scenario A of the specification: UTXOs of 100,000 and 50,000 sats, target
\* 80,000 sats, 5 sat/vB, in either order of the list.
ScenarioA(first, second) ==
    [utxos |-> << [txid |-> 1, vout |-> 0, value |-> first, confirmed |-> TRUE],
                  [txid |-> 2, vout |-> 0, value |-> second, confirmed |-> TRUE] >>,
     senderAddress |-> MainTaproot, recipientAddress |-> MainTaproot,
     amount |-> 80000, feeRate |-> [num |-> 5, den |-> 1]]

ScenarioArgs == {ScenarioA(100000, 50000), ScenarioA(50000, 100000)}

-----------------------------------------------------------------------------
(* The send orchestrator, useBitcoinTransaction (part_002 lines 690-963).    *)
(* A handler runs without interruption up to its next await; each action    *)
(* below is one such run.  "writes" keeps the steps the run passed to       *)
(* setTxState, in order, and "prevStep" the step before the run.            *)

EmptyRaw == [vin |-> <<>>, vout |-> <<>>]

NoTx == [txid |-> [hashOf |-> EmptyRaw], rawTx |-> EmptyRaw, fee |-> 0, change |-> 0]

\* useState<TransactionState>({ step: "idle" }); an optional field that is
\* absent holds "none", NoBuild or NoTx.
IdleState == [step |-> "idle", error |-> "none", psbtResult |-> NoBuild, txResult |-> NoTx]

OrchInit ==
    /\ clientReady = FALSE
    /\ txState = IdleState
    /\ writes = <<>>
    /\ prevStep = "idle"
    /\ lastOp = <<"none", 0>>
    /\ send = <<>>
    /\ bcast = <<>>
    /\ gateway = {}

orchVars == <<clientReady, txState, writes, prevStep, lastOp, send, bcast, gateway>>

buildVars == <<args, call, sel, built, parseIn, parsed, est>>

sizeVars == <<sizeIn, sizeOut>>

dataVars == <<dataState, fetchOps, apiLog, refreshOps>>

\* estimateFee has not been called
NoEstimate == [kind |-> "none", fee |-> 0, change |-> 0]

\* No size or fee call has been made
SizeIdle ==
    /\ sizeIn = [inputCount |-> 0, includeChange |-> FALSE, feeRate |-> [num |-> 1, den |-> 1]]
    /\ sizeOut = [call |-> "none", value |-> 0]

\* part_002 lines 992-998; an absent fees or error holds "none"
initialState ==
    [addresses |-> <<>>, totalBalance |-> 0, fees |-> "none",
     isLoading |-> FALSE, error |-> "none"]

\* useState<BitcoinDataState>(initialState), nothing requested yet
DataInit ==
    /\ dataState = initialState
    /\ fetchOps = <<>>
    /\ apiLog = {}
    /\ refreshOps = <<>>

\* No pure function has been applied
BuildIdle ==
    /\ args = [utxos |-> <<>>, senderAddress |-> MainTaproot,
               recipientAddress |-> MainTaproot, amount |-> 0,
               feeRate |-> [num |-> 1, den |-> 1]]
    /\ call = "none"
    /\ sel = NullSelection
    /\ built = NoBuild
    /\ parseIn = EmptyHex
    /\ parsed = NoParse
    /\ est = NoEstimate

-----------------------------------------------------------------------------
(* SpecBuild: the pure functions applied to every bounded input *)

InitBuild ==
    /\ args \in ArgsSet \cup ScenarioArgs
    /\ call = "none"
    /\ sel = NullSelection
    /\ built = NoBuild
    /\ parseIn = EmptyHex
    /\ parsed = NoParse
    /\ est = NoEstimate
    /\ SizeIdle
    /\ DataInit
    /\ OrchInit

CallSelectUtxos ==
    /\ call = "none"
    /\ call' = "selectUtxos"
    /\ sel' = selectUtxos(args.utxos, args.amount, args.feeRate,
                          args.senderAddress, args.recipientAddress)
    /\ UNCHANGED <<args, built, parseIn, parsed, est>>
    /\ UNCHANGED <<orchVars, sizeVars, dataVars>>

CallBuildPsbt ==
    /\ call = "none"
    /\ call' = "buildPsbt"
    /\ built' = buildPsbt(args)
    /\ UNCHANGED <<args, sel, parseIn, parsed, est>>
    /\ UNCHANGED <<orchVars, sizeVars, dataVars>>

CallParsePsbt ==
    /\ call = "buildPsbt"
    /\ built.kind = "ok"
    /\ call' = "parsePsbt"
    /\ parseIn' = built.psbtHex
    /\ parsed' = parsePsbt(built.psbtHex)
    /\ UNCHANGED <<args, sel, built, est>>
    /\ UNCHANGED <<orchVars, sizeVars, dataVars>>

\* parsePsbt applied to a template that did not come from buildPsbt as it is:
\* the built template in which the inputs of "missing" carry no witnessUtxo
\* (a PSBT whose inputs carry nonWitnessUtxo, or nothing, is a valid PSBT).
CallParsePsbtOther ==
    /\ call = "buildPsbt"
    /\ built.kind = "ok"
    /\ \E missing \in (SUBSET (1..Len(built.psbtHex.vin))) \ {{}} :
          /\ parseIn' = WithoutWitnessUtxo(built.psbtHex, missing)
          /\ parsed' = parsePsbt(WithoutWitnessUtxo(built.psbtHex, missing))
    /\ call' = "parsePsbtOther"
    /\ UNCHANGED <<args, sel, built, est>>
    /\ UNCHANGED <<orchVars, sizeVars, dataVars>>

CallEstimateFee ==
    /\ call = "none"
    /\ call' = "estimateFee"
    /\ est' = estimateFee(args.utxos, args.senderAddress, args.recipientAddress,
                          args.amount, args.feeRate)
    /\ UNCHANGED <<args, sel, built, parseIn, parsed>>
    /\ UNCHANGED <<orchVars, sizeVars, dataVars>>

\* The data hook's selectUtxos for the sender, whose snapshot holds args.utxos
CallHookSelectUtxos ==
    /\ call = "none"
    /\ call' = "hookSelectUtxos"
    /\ sel' = hookSelectUtxos([a \in {args.senderAddress} |-> [utxos |-> args.utxos]],
                              args.senderAddress, args.amount, args.feeRate)
    /\ UNCHANGED <<args, built, parseIn, parsed, est>>
    /\ UNCHANGED <<orchVars, sizeVars, dataVars>>

NextBuild ==
    \/ CallSelectUtxos
    \/ CallHookSelectUtxos
    \/ CallBuildPsbt
    \/ CallParsePsbt
    \/ CallParsePsbtOther
    \/ CallEstimateFee

SpecBuild == InitBuild /\ [][NextBuild]_vars

-----------------------------------------------------------------------------
(* SpecSize: the size and fee formulas applied to every bounded input *)

InitSize ==
    /\ sizeIn \in [inputCount : 0..MaxInputCount, includeChange : BOOLEAN,
                    feeRate : FeeRates]
    /\ sizeOut = [call |-> "none", value |-> 0]
    /\ BuildIdle
    /\ DataInit
    /\ OrchInit

CallEstimateTxSize ==
    /\ sizeOut.call = "none"
    /\ sizeOut' = [call |-> "estimateTxSize",
                   value |-> estimateTxSize(sizeIn.inputCount, sizeIn.includeChange)]
    /\ UNCHANGED sizeIn
    /\ UNCHANGED <<buildVars, orchVars, dataVars>>

CallCalculateFee ==
    /\ sizeOut.call = "none"
    /\ sizeOut' = [call |-> "calculateFee",
                   value |-> calculateFee(sizeIn.inputCount, sizeIn.includeChange,
                                          sizeIn.feeRate)]
    /\ UNCHANGED sizeIn
    /\ UNCHANGED <<buildVars, orchVars, dataVars>>

NextSize == CallEstimateTxSize \/ CallCalculateFee

SpecSize == InitSize /\ [][NextSize]_vars

\* C16: for every n in 0..50 and both values of includeChange,
\* estimateTxSize(n, includeChange) = 10 + n*58 + (includeChange ? 2 : 1)*43.
C16_SizeFormula ==
    sizeOut.call = "estimateTxSize" =>
        sizeOut.value = 10 + sizeIn.inputCount * 58
                           + (IF sizeIn.includeChange THEN 2 ELSE 1) * 43

\* The size of 50 inputs without a change output has been estimated.
C16_Witness ==
    /\ sizeOut.call = "estimateTxSize"
    /\ sizeIn.inputCount = 50
    /\ ~sizeIn.includeChange
    /\ sizeOut.value = 2953

-----------------------------------------------------------------------------
(* Properties of the coin selector and the assembler (under SpecBuild) *)

Range(s) == {s[i] : i \in 1..Len(s)}

SelectDone == call = "selectUtxos" /\ sel.kind = "ok"

\* C1: whenever selectUtxos returns a selection, the sum of the selected UTXO
\* values, which is the reported totalValue, equals targetAmount + fee + change.
C1_Conservation ==
    SelectDone =>
        /\ SumValues(sel.utxos) = sel.totalValue
        /\ sel.totalValue = args.amount + sel.fee + sel.change

\* A selection of two or more inputs that carries a change output.
C1_Witness == SelectDone /\ Len(sel.utxos) >= 2 /\ sel.change > 0

\* C2: every selection returned by selectUtxos has change = 0 or
\* change >= DUST_THRESHOLD (546).
C2_NoDustChange ==
    SelectDone => (sel.change = 0 \/ sel.change >= DUST_THRESHOLD)

\* A selection whose dust-sized remainder was suppressed and added to the fee.
C2_Witness ==
    /\ SelectDone
    /\ sel.change = 0
    /\ sel.fee > MathCeil(estimateTxSize(Len(sel.utxos), TRUE), args.feeRate)

\* The running total of the first n entries of the sorted list
PrefixTotal(sorted, n) == SumValues(SubSeq(sorted, 1, n))

\* C3 (as claimed): selectUtxos returns null if and only if no prefix of the
\* value-descending sorted list satisfies total >= target + feeWithChange(n) or
\* the no-change fallback total >= target + feeNoChange(n).
C3_NullIffNoPrefix ==
    (call = "selectUtxos" /\ isTaprootAddress(args.senderAddress)) =>
        LET sorted == SortDesc(args.utxos)
            covers(n) ==
                \/ PrefixTotal(sorted, n) >=
                       args.amount + MathCeil(estimateTxSize(n, TRUE), args.feeRate)
                \/ PrefixTotal(sorted, n) >=
                       args.amount + MathCeil(estimateTxSize(n, FALSE), args.feeRate)
        IN  (sel.kind = "null") <=> ~(\E n \in 1..Len(sorted) : covers(n))

\* The acceptance test of one prefix: the total covers the target and the fee
\* with change, and when the change would be dust it covers the no-change fee.
Accepted(sorted, n, targetAmount, feeRate) ==
    LET total         == PrefixTotal(sorted, n)
        feeWithChange == MathCeil(estimateTxSize(n, TRUE), feeRate)
        feeNoChange   == MathCeil(estimateTxSize(n, FALSE), feeRate)
    IN  /\ total >= targetAmount + feeWithChange
        /\ (total - targetAmount - feeWithChange < DUST_THRESHOLD) =>
               total >= targetAmount + feeNoChange

\* C15: a successful selectUtxos result is the shortest accepted prefix of the
\* value-descending sorted list: with n UTXOs selected no shorter prefix is
\* accepted, and the selected UTXOs are the n largest, in descending order.
C15_ShortestAcceptedPrefix ==
    SelectDone =>
        LET sorted == SortDesc(args.utxos)
            n      == Len(sel.utxos)
        IN  /\ n \in 1..Len(args.utxos)
            /\ sel.utxos = SubSeq(sorted, 1, n)
            /\ Accepted(sorted, n, args.amount, args.feeRate)
            /\ \A k \in 1..(n - 1) : ~Accepted(sorted, k, args.amount, args.feeRate)
            /\ \A i \in 1..(n - 1) : sel.utxos[i].value >= sel.utxos[i + 1].value
            /\ \A j \in 1..Len(args.utxos) :
                  args.utxos[j] \notin Range(sel.utxos) =>
                      \A i \in 1..n : args.utxos[j].value <= sel.utxos[i].value
            /\ Cardinality(Range(sel.utxos)) = n

\* Two UTXOs are selected out of three whose largest was given last.
C15_Witness ==
    /\ SelectDone
    /\ Len(sel.utxos) = 2
    /\ Len(args.utxos) = 3
    /\ args.utxos[1].value <= args.utxos[2].value
    /\ args.utxos[2].value < args.utxos[3].value

\* C17 (as claimed): in Scenario A selectUtxos selects the 100,000 UTXO alone
\* with fee 740 and change 100,000 - 80,000 - fee, a change of at least 546.
C17_ScenarioA_Original ==
    (call = "selectUtxos" /\ args \in ScenarioArgs) =>
        /\ sel.kind = "ok"
        /\ Len(sel.utxos) = 1
        /\ sel.utxos[1].value = 100000
        /\ sel.fee = 740
        /\ sel.change = 100000 - 80000 - sel.fee
        /\ sel.change >= 546

\* C17 (amended): in Scenario A selectUtxos selects the 100,000 UTXO alone with
\* fee ceil((10 + 58 + 2*43) * 5) = 770 and change 100,000 - 80,000 - 770 =
\* 19,230, a change of at least 546; calculateFee(1, true, 5) is that fee.
C17_ScenarioA ==
    (call = "selectUtxos" /\ args \in ScenarioArgs) =>
        /\ sel.kind = "ok"
        /\ Len(sel.utxos) = 1
        /\ sel.utxos[1].value = 100000
        /\ sel.totalValue = 100000
        /\ sel.fee = 770
        /\ sel.fee = calculateFee(1, TRUE, args.feeRate)
        /\ sel.change = 19230
        /\ sel.change = 100000 - 80000 - sel.fee
        /\ sel.change >= 546

\* Scenario A has been run on the list that holds the 50,000 UTXO first.
C17_Witness ==
    /\ call = "selectUtxos"
    /\ args = ScenarioA(50000, 100000)
    /\ sel.kind = "ok"

NoUtxoTouched(steps) ==
    Range(steps) \cap {"filterUtxos", "selectUtxos", "addInput", "addOutput"} = {}

\* C9 (as claimed): buildPsbt with amount < 546 fails with the amount-too-small
\* error before any UTXO is filtered or selected, whatever the other arguments.
C9_DustAmountRejected_Original ==
    (call = "buildPsbt" /\ args.amount < DUST_THRESHOLD) =>
        /\ built.kind = "throw"
        /\ built.error = "Amount too small"
        /\ NoUtxoTouched(built.steps)

\* C9 (amended): buildPsbt with a Taproot-prefixed sender and amount < 546 fails
\* with the amount-too-small error before any UTXO is filtered or selected, for
\* every UTXO list and fee rate; with another sender it fails on the sender
\* check, which comes first, also before any UTXO is touched.
C9_DustAmountRejected ==
    (call = "buildPsbt" /\ args.amount < DUST_THRESHOLD) =>
        /\ built.kind = "throw"
        /\ NoUtxoTouched(built.steps)
        /\ built.error = IF isTaprootAddress(args.senderAddress)
                         THEN "Amount too small"
                         ELSE "Sender must be a Taproot address"

\* A sub-dust amount rejected although the confirmed UTXOs would cover it.
C9_Witness ==
    /\ call = "buildPsbt"
    /\ args.amount < DUST_THRESHOLD
    /\ built.error = "Amount too small"
    /\ selectUtxos(FilterConfirmed(args.utxos), args.amount, args.feeRate,
                   args.senderAddress, args.recipientAddress).kind = "ok"

\* C10: parsePsbt applied to the template of a successful buildPsbt returns the
\* totalInput, fee and outputCount of the build result's metadata.
C10_RoundTrip ==
    call = "parsePsbt" =>
        /\ parsed.totalInput = built.totalInput
        /\ parsed.fee = built.fee
        /\ parsed.outputCount = built.outputCount

\* A parsed template with two or more inputs and a change output.
C10_Witness ==
    /\ call = "parsePsbt"
    /\ built.inputCount >= 2
    /\ built.change > 0
    /\ parsed.outputCount = 2

-----------------------------------------------------------------------------
(* Properties of estimateFee (under SpecBuild) *)

\* The preview and the build agree on the arguments under test
PreviewAgreesWithBuild ==
    LET b == buildPsbt(args)
    IN  /\ (est.kind = "null") <=> (b.kind = "throw" /\ b.error = "Insufficient funds")
        /\ (est.kind # "null") =>
              /\ est.kind = "ok"
              /\ b.kind = "ok"
              /\ est.fee = b.fee
              /\ est.change = b.change

\* estimateFee has been applied to a valid Taproot sender and an amount >= 546
PreviewCase ==
    /\ call = "estimateFee"
    /\ isValidBitcoinAddress(args.senderAddress)
    /\ args.senderAddress.decodable
    /\ args.amount >= DUST_THRESHOLD

\* C27 (as claimed): for every UTXO list, valid Taproot sender, amount >= 546
\* and fee rate, estimateFee returns null exactly when buildPsbt fails with
\* 'Insufficient funds', and otherwise its fee and change are those of the
\* buildPsbt result for the same arguments.
C27_PreviewMatchesBuild_Original ==
    PreviewCase => PreviewAgreesWithBuild

\* C27 (amended): the same, for a recipient address that decodes to an output
\* script on the sender's network.
C27_PreviewMatchesBuild ==
    (PreviewCase /\ toOutputScriptOk(args.recipientAddress,
                                      getNetwork(args.senderAddress))) =>
        PreviewAgreesWithBuild

\* A preview with change over a list that holds an unconfirmed UTXO, for a
\* recipient on the sender's network.
C27_Witness ==
    /\ PreviewCase
    /\ toOutputScriptOk(args.recipientAddress, getNetwork(args.senderAddress))
    /\ est.kind = "ok"
    /\ est.change > 0
    /\ \E u \in Range(args.utxos) : ~u.confirmed

\* C14: estimateFee never throws: it returns null for a sender that is not
\* Taproot and for insufficient confirmed funds, and otherwise a {fee, change}
\* pair.
C14_EstimateFeeNeverThrows ==
    call = "estimateFee" =>
        /\ est.kind \in {"null", "ok"}
        /\ ~isTaprootAddress(args.senderAddress) => est.kind = "null"

-----------------------------------------------------------------------------
(* Properties of the built template (under SpecBuild) *)

BuildDone == call = "buildPsbt" /\ built.kind = "ok"

\* The selection buildPsbt works from: selectUtxos on the confirmed UTXOs
ConfirmedSelection ==
    selectUtxos(FilterConfirmed(args.utxos), args.amount, args.feeRate,
                args.senderAddress, args.recipientAddress)

\* C18: a template produced by buildPsbt holds one input per selected UTXO,
\* added before any output, then exactly one recipient output of value amount,
\* then a change output to the sender of value change if and only if
\* change > 0; outputCount is 2 exactly when change > 0 and 1 otherwise, and
\* inputCount is the number of selected UTXOs.
C18_TemplateShape ==
    BuildDone =>
        LET t         == built.psbtHex
            selection == ConfirmedSelection
        IN  /\ Len(t.vin) = Len(selection.utxos)
            /\ \A i \in 1..Len(t.vin) :
                  t.vin[i] = [hash  |-> selection.utxos[i].txid,
                              index |-> selection.utxos[i].vout]
            /\ \E i, j \in 1..Len(built.steps) :
                  /\ built.steps[i] = "addInput"
                  /\ built.steps[j] = "addOutput"
                  /\ i < j
            /\ Len(t.vout) >= 1
            /\ t.vout[1] = [address |-> args.recipientAddress, value |-> args.amount]
            /\ (built.change > 0) =>
                  /\ Len(t.vout) = 2
                  /\ t.vout[2] = [address |-> args.senderAddress, value |-> built.change]
            /\ (built.change <= 0) => Len(t.vout) = 1
            /\ built.outputCount = (IF built.change > 0 THEN 2 ELSE 1)
            /\ built.outputCount = Len(t.vout)
            /\ built.inputCount = Len(selection.utxos)

\* A template with two inputs and a change output has been built.
C18_Witness ==
    /\ BuildDone
    /\ built.inputCount = 2
    /\ built.change > 0
    /\ Len(built.psbtHex.vout) = 2

\* Every input of the built template is a confirmed UTXO of the given list
SpendsConfirmedOnly ==
    BuildDone =>
        \A i \in 1..Len(built.psbtHex.vin) :
            \E u \in Range(args.utxos) :
                /\ u.txid = built.psbtHex.vin[i].hash
                /\ u.vout = built.psbtHex.vin[i].index
                /\ u.confirmed

InsufficientFunds == built.kind = "throw" /\ built.error = "Insufficient funds"

C19_WitnessInsufficient ==
    /\ call = "buildPsbt"
    /\ InsufficientFunds
    /\ selectUtxos(args.utxos, args.amount, args.feeRate,
                   args.senderAddress, args.recipientAddress).kind = "ok"

\* C26: for the non-negative fee rates, a successful selectUtxos result with n
\* inputs pays fee = ceil(estimateTxSize(n, true) * feeRate) when change > 0,
\* and when change = 0 the fee is at least that and less than that plus 546.
C26_NeverUnderpays ==
    (SelectDone /\ args.feeRate.num >= 0) =>
        LET n             == Len(sel.utxos)
            feeWithChange == MathCeil(estimateTxSize(n, TRUE), args.feeRate)
        IN  /\ sel.change >= 0
            /\ sel.change > 0 => sel.fee = feeWithChange
            /\ sel.change = 0 =>
                  /\ feeWithChange <= sel.fee
                  /\ sel.fee < feeWithChange + 546

\* A selection without change whose fee took up suppressed dust.
C26_Witness ==
    /\ SelectDone
    /\ sel.change = 0
    /\ sel.fee > MathCeil(estimateTxSize(Len(sel.utxos), TRUE), args.feeRate)
    /\ args.feeRate.num > 0

\* C24: every selection returned by the data hook's selectUtxos satisfies
\* sum of the selected values = targetAmount + fee + change, and change = 0
\* or change >= 546, as the selector of psbt-builder does.
C24_HookSelectionInvariant ==
    (call = "hookSelectUtxos" /\ sel.kind = "ok") =>
        /\ SumValues(sel.utxos) = args.amount + sel.fee + sel.change
        /\ sel.change = 0 \/ sel.change >= DUST_THRESHOLD

\* C21: buildPsbt given a sender or a recipient address of the wrong format
\* (prefix not bc1p/tb1p, or length not 62) rejects it before any UTXO is
\* filtered or selected and before the template is touched.
C21_BadAddressRejectedFirst ==
    (/\ call = "buildPsbt"
     /\ \/ ~isValidBitcoinAddress(args.senderAddress)
        \/ ~isValidBitcoinAddress(args.recipientAddress)) =>
        /\ built.kind = "throw"
        /\ NoUtxoTouched(built.steps)

-----------------------------------------------------------------------------
(* Properties of parsePsbt on other templates (under SpecBuild) *)

\* C20: parsePsbt fails, returning no summary, whenever at least one input of
\* the template lacks the witness-carried value; it never returns totals
\* computed from only a subset of the inputs.
C20_ParseFailsOnMissingValue ==
    (/\ call = "parsePsbtOther"
     /\ \E i \in 1..Len(parseIn.inputMaps) : parseIn.inputMaps[i].witnessUtxo = <<>>) =>
        parsed.kind = "throw"

-----------------------------------------------------------------------------
(* Spec: the send orchestrator *)

\* The wallet's UTXO list handed to every send (selectedData.utxos)
WalletUtxos ==
    << [txid |-> 1, vout |-> 0, value |-> 2500, confirmed |-> TRUE],
       [txid |-> 2, vout |-> 0, value |-> 1300, confirmed |-> TRUE] >>

SendParams ==
    [utxos : {WalletUtxos}, fromAddress : {MainTaproot, MainSegwit},
     toAddress : {MainTaproot}, amount : {500, 1000},
     feeRate : {[num |-> 1, den |-> 1]}]

\* What the external signer hands back: the template with a key-path
\* signature on every input ("signed"), the template with the first input
\* left without one ("partial"), or a rejection ("reject").
SignerOutcomes == {"signed", "partial", "reject"}

SignedTemplate(psbtHex, outcome) ==
    [psbtHex EXCEPT !.inputMaps =
        [i \in 1..Len(psbtHex.inputMaps) |->
            [psbtHex.inputMaps[i] EXCEPT !.tapKeySig = (outcome = "signed" \/ i > 1)]]]

\* psbt-builder.ts lines 232-242: finalizeAllInputs throws for an input that
\* carries no signature; extractTransaction yields the wire transaction.
finalizePsbt(signedPsbtHex) ==
    LET psbt == PsbtFromHex(signedPsbtHex)
    IN  IF \E i \in 1..Len(psbt.dataInputs) : ~psbt.dataInputs[i].tapKeySig
        THEN [kind |-> "throw", rawTx |-> EmptyRaw]
        ELSE [kind |-> "ok",
              rawTx |-> [vin |-> signedPsbtHex.vin, vout |-> signedPsbtHex.vout]]

\* A raw transaction signed elsewhere, for the standalone broadcastTransaction
ForeignRawTx ==
    [vin  |-> <<[hash |-> 9, index |-> 0]>>,
     vout |-> <<[address |-> MainTaproot, value |-> 600]>>]

NewSend(params) ==
    [params |-> params, pc |-> "thrown", psbtResult |-> NoBuild, signed |-> EmptyHex,
     rawTx |-> EmptyRaw, signerCalls |-> 0, broadcastCalls |-> 0, failedAt |-> "none"]

ErrorState(message) == [IdleState EXCEPT !.step = "error", !.error = message]

\* clientState of the Turnkey provider changes
ClientStateChange ==
    /\ clientReady' = ~clientReady
    /\ writes' = <<>>
    /\ prevStep' = txState.step
    /\ lastOp' = <<"clientState", 0>>
    /\ UNCHANGED <<txState, send, bcast, gateway>>
    /\ UNCHANGED <<buildVars, sizeVars, dataVars>>

\* Mutant of ResetValue: only the step is set back, the other fields stay.
ResetValue_KeepFields(state) == [state EXCEPT !.step = "idle"]

\* part_002 lines 712-714: setTxState({ step: "idle" })
ResetValue(state) == IdleState

ResetTxState ==
    /\ txState' = ResetValue(txState)
    /\ writes' = <<"idle">>
    /\ prevStep' = txState.step
    /\ lastOp' = <<"resetTxState", 0>>
    /\ UNCHANGED <<clientReady, send, bcast, gateway>>
    /\ UNCHANGED <<buildVars, sizeVars, dataVars>>

\* Mutant of SendBitcoin: the signer is called although the build failed.
SendBitcoin_SignAfterFailedBuild(params) ==
    /\ Len(send) < MaxSends
    /\ prevStep' = txState.step
    /\ lastOp' = <<"sendBitcoin", Len(send) + 1>>
    /\ IF ~clientReady \/ ~isTaprootAddress(params.fromAddress)
       THEN \* thrown before the try block: no state write
            /\ send' = Append(send, NewSend(params))
            /\ writes' = <<>>
            /\ UNCHANGED txState
       ELSE LET psbtResult == buildPsbt([utxos |-> params.utxos,
                                         senderAddress |-> params.fromAddress,
                                         recipientAddress |-> params.toAddress,
                                         amount |-> params.amount,
                                         feeRate |-> params.feeRate])
            IN  IF psbtResult.kind = "throw"
                THEN /\ txState' = ErrorState(psbtResult.error)
                     /\ writes' = <<"building", "error">>
                     /\ send' = Append(send, [NewSend(params) EXCEPT
                                                !.pc = "failed", !.failedAt = "build",
                                                !.signerCalls = 1])
                ELSE /\ txState' = [IdleState EXCEPT !.step = "signing",
                                                     !.psbtResult = psbtResult]
                     /\ writes' = <<"building", "signing">>
                     /\ send' = Append(send, [NewSend(params) EXCEPT
                                                !.pc = "signing",
                                                !.psbtResult = psbtResult,
                                                !.signerCalls = 1])
    /\ UNCHANGED <<clientReady, bcast, gateway>>
    /\ UNCHANGED <<buildVars, sizeVars, dataVars>>

\* Mutant of SendBitcoin: the two early checks sit inside the try block, so
\* their failure is written to the state.
SendBitcoin_ChecksInsideTry(params) ==
    /\ Len(send) < MaxSends
    /\ prevStep' = txState.step
    /\ lastOp' = <<"sendBitcoin", Len(send) + 1>>
    /\ IF ~clientReady \/ ~isTaprootAddress(params.fromAddress)
       THEN \* thrown before the try block: no state write
            /\ send' = Append(send, NewSend(params))
            /\ writes' = <<"error">>
            /\ txState' = ErrorState("Client not ready")
       ELSE LET psbtResult == buildPsbt([utxos |-> params.utxos,
                                         senderAddress |-> params.fromAddress,
                                         recipientAddress |-> params.toAddress,
                                         amount |-> params.amount,
                                         feeRate |-> params.feeRate])
            IN  IF psbtResult.kind = "throw"
                THEN /\ txState' = ErrorState(psbtResult.error)
                     /\ writes' = <<"building", "error">>
                     /\ send' = Append(send, [NewSend(params) EXCEPT
                                                !.pc = "failed", !.failedAt = "build"])
                ELSE /\ txState' = [IdleState EXCEPT !.step = "signing",
                                                     !.psbtResult = psbtResult]
                     /\ writes' = <<"building", "signing">>
                     /\ send' = Append(send, [NewSend(params) EXCEPT
                                                !.pc = "signing",
                                                !.psbtResult = psbtResult,
                                                !.signerCalls = 1])
    /\ UNCHANGED <<clientReady, bcast, gateway>>
    /\ UNCHANGED <<buildVars, sizeVars, dataVars>>

\* part_002 lines 835-865: sendBitcoin from the call to the await of the signer
SendBitcoin(params) ==
    /\ Len(send) < MaxSends
    /\ prevStep' = txState.step
    /\ lastOp' = <<"sendBitcoin", Len(send) + 1>>
    /\ IF ~clientReady \/ ~isTaprootAddress(params.fromAddress)
       THEN \* thrown before the try block: no state write
            /\ send' = Append(send, NewSend(params))
            /\ writes' = <<>>
            /\ UNCHANGED txState
       ELSE LET psbtResult == buildPsbt([utxos |-> params.utxos,
                                         senderAddress |-> params.fromAddress,
                                         recipientAddress |-> params.toAddress,
                                         amount |-> params.amount,
                                         feeRate |-> params.feeRate])
            IN  IF psbtResult.kind = "throw"
                THEN /\ txState' = ErrorState(psbtResult.error)
                     /\ writes' = <<"building", "error">>
                     /\ send' = Append(send, [NewSend(params) EXCEPT
                                                !.pc = "failed", !.failedAt = "build"])
                ELSE /\ txState' = [IdleState EXCEPT !.step = "signing",
                                                     !.psbtResult = psbtResult]
                     /\ writes' = <<"building", "signing">>
                     /\ send' = Append(send, [NewSend(params) EXCEPT
                                                !.pc = "signing",
                                                !.psbtResult = psbtResult,
                                                !.signerCalls = 1])
    /\ UNCHANGED <<clientReady, bcast, gateway>>
    /\ UNCHANGED <<buildVars, sizeVars, dataVars>>

\* Mutant of AfterSign: the raw transaction is posted before the template is
\* finalized (the broadcast is issued on the signer's output as it came).
AfterSign_BroadcastFirst(i, signed) ==
    LET fin == finalizePsbt(signed)
        raw == [vin |-> signed.vin, vout |-> signed.vout]
    IN  /\ gateway' = gateway \cup {raw}
        /\ IF fin.kind = "throw"
           THEN /\ txState' = ErrorState("finalize failed")
                /\ writes' = <<"broadcasting", "error">>
                /\ send' = [send EXCEPT ![i].pc = "failed", ![i].signed = signed,
                                        ![i].failedAt = "finalize",
                                        ![i].broadcastCalls = 1]
           ELSE /\ txState' = [IdleState EXCEPT !.step = "broadcasting",
                                                !.psbtResult = send[i].psbtResult]
                /\ writes' = <<"broadcasting">>
                /\ send' = [send EXCEPT ![i].pc = "broadcasting", ![i].signed = signed,
                                        ![i].rawTx = fin.rawTx,
                                        ![i].broadcastCalls = 1]

\* part_002 lines 867-874: the signer has returned; the state is set to
\* broadcasting, the template is finalized and the raw transaction is posted.
AfterSign(i, signed) ==
    LET fin == finalizePsbt(signed)
    IN  IF fin.kind = "throw"
        THEN /\ txState' = ErrorState("finalize failed")
             /\ writes' = <<"broadcasting", "error">>
             /\ send' = [send EXCEPT ![i].pc = "failed", ![i].signed = signed,
                                     ![i].failedAt = "finalize"]
             /\ UNCHANGED gateway
        ELSE /\ txState' = [IdleState EXCEPT !.step = "broadcasting",
                                             !.psbtResult = send[i].psbtResult]
             /\ writes' = <<"broadcasting">>
             /\ send' = [send EXCEPT ![i].pc = "broadcasting", ![i].signed = signed,
                                     ![i].rawTx = fin.rawTx,
                                     ![i].broadcastCalls = 1]
             /\ gateway' = gateway \cup {fin.rawTx}

\* Mutant of SignerReturns: a rejection by the signer is swallowed, no error
\* is written to the state.
SignerReturns_SwallowReject(i, outcome) ==
    /\ i \in 1..Len(send)
    /\ send[i].pc = "signing"
    /\ prevStep' = txState.step
    /\ lastOp' = <<"signerReturns", i>>
    /\ IF outcome = "reject"
       THEN /\ txState' = txState
            /\ writes' = <<>>
            /\ send' = [send EXCEPT ![i].pc = "failed", ![i].failedAt = "sign"]
            /\ UNCHANGED gateway
       ELSE AfterSign(i, SignedTemplate(send[i].psbtResult.psbtHex, outcome))
    /\ UNCHANGED <<clientReady, bcast>>
    /\ UNCHANGED <<buildVars, sizeVars, dataVars>>

\* part_002 lines 862-874 and 890-895: the await of signPsbt ends
SignerReturns(i, outcome) ==
    /\ i \in 1..Len(send)
    /\ send[i].pc = "signing"
    /\ prevStep' = txState.step
    /\ lastOp' = <<"signerReturns", i>>
    /\ IF outcome = "reject"
       THEN /\ txState' = ErrorState("signer error")
            /\ writes' = <<"error">>
            /\ send' = [send EXCEPT ![i].pc = "failed", ![i].failedAt = "sign"]
            /\ UNCHANGED gateway
       ELSE AfterSign(i, SignedTemplate(send[i].psbtResult.psbtHex, outcome))
    /\ UNCHANGED <<clientReady, bcast>>
    /\ UNCHANGED <<buildVars, sizeVars, dataVars>>

\* Mutant of BroadcastReturns: the result reports no fee and no change.
BroadcastReturns_NoFee(i, ok) ==
    /\ i \in 1..Len(send)
    /\ send[i].pc = "broadcasting"
    /\ prevStep' = txState.step
    /\ lastOp' = <<"broadcastReturns", i>>
    /\ IF ok
       THEN /\ txState' = [step |-> "complete", error |-> "none",
                           psbtResult |-> send[i].psbtResult,
                           txResult |-> [txid |-> [hashOf |-> send[i].rawTx],
                                         rawTx |-> send[i].rawTx,
                                         fee |-> 0,
                                         change |-> 0]]
            /\ writes' = <<"complete">>
            /\ send' = [send EXCEPT ![i].pc = "done"]
       ELSE /\ txState' = ErrorState("Broadcast failed")
            /\ writes' = <<"error">>
            /\ send' = [send EXCEPT ![i].pc = "failed", ![i].failedAt = "broadcast"]
    /\ UNCHANGED <<clientReady, bcast, gateway>>
    /\ UNCHANGED <<buildVars, sizeVars, dataVars>>

\* part_002 lines 874-895: the await of api.broadcastTransaction ends
BroadcastReturns(i, ok) ==
    /\ i \in 1..Len(send)
    /\ send[i].pc = "broadcasting"
    /\ prevStep' = txState.step
    /\ lastOp' = <<"broadcastReturns", i>>
    /\ IF ok
       THEN /\ txState' = [step |-> "complete", error |-> "none",
                           psbtResult |-> send[i].psbtResult,
                           txResult |-> [txid |-> [hashOf |-> send[i].rawTx],
                                         rawTx |-> send[i].rawTx,
                                         fee |-> send[i].psbtResult.fee,
                                         change |-> send[i].psbtResult.change]]
            /\ writes' = <<"complete">>
            /\ send' = [send EXCEPT ![i].pc = "done"]
       ELSE /\ txState' = ErrorState("Broadcast failed")
            /\ writes' = <<"error">>
            /\ send' = [send EXCEPT ![i].pc = "failed", ![i].failedAt = "broadcast"]
    /\ UNCHANGED <<clientReady, bcast, gateway>>
    /\ UNCHANGED <<buildVars, sizeVars, dataVars>>

\* Mutant of BroadcastTransaction: the step is merged into the previous state.
BroadcastTransaction_MergeState(rawTxHex) ==
    /\ Len(bcast) < MaxBroadcasts
    /\ txState' = [txState EXCEPT !.step = "broadcasting"]
    /\ writes' = <<"broadcasting">>
    /\ prevStep' = txState.step
    /\ lastOp' = <<"broadcastTransaction", Len(bcast) + 1>>
    /\ bcast' = Append(bcast, [rawTx |-> rawTxHex, pc |-> "broadcasting"])
    /\ gateway' = gateway \cup {rawTxHex}
    /\ UNCHANGED <<clientReady, send>>
    /\ UNCHANGED <<buildVars, sizeVars, dataVars>>

\* part_002 lines 921-928: broadcastTransaction from the call to its await
BroadcastTransaction(rawTxHex) ==
    /\ Len(bcast) < MaxBroadcasts
    /\ txState' = [IdleState EXCEPT !.step = "broadcasting"]
    /\ writes' = <<"broadcasting">>
    /\ prevStep' = txState.step
    /\ lastOp' = <<"broadcastTransaction", Len(bcast) + 1>>
    /\ bcast' = Append(bcast, [rawTx |-> rawTxHex, pc |-> "broadcasting"])
    /\ gateway' = gateway \cup {rawTxHex}
    /\ UNCHANGED <<clientReady, send>>
    /\ UNCHANGED <<buildVars, sizeVars, dataVars>>

\* part_002 lines 928-939: the await of the standalone broadcast ends
StandaloneBroadcastReturns(j, ok) ==
    /\ j \in 1..Len(bcast)
    /\ bcast[j].pc = "broadcasting"
    /\ prevStep' = txState.step
    /\ lastOp' = <<"standaloneBroadcastReturns", j>>
    /\ IF ok
       THEN /\ txState' = [step |-> "complete", error |-> "none",
                           psbtResult |-> NoBuild,
                           txResult |-> [txid |-> [hashOf |-> bcast[j].rawTx],
                                         rawTx |-> bcast[j].rawTx,
                                         fee |-> 0, change |-> 0]]
            /\ writes' = <<"complete">>
            /\ bcast' = [bcast EXCEPT ![j].pc = "done"]
       ELSE /\ txState' = ErrorState("Broadcast failed")
            /\ writes' = <<"error">>
            /\ bcast' = [bcast EXCEPT ![j].pc = "failed"]
    /\ UNCHANGED <<clientReady, send, gateway>>
    /\ UNCHANGED <<buildVars, sizeVars, dataVars>>

Init ==
    /\ BuildIdle
    /\ SizeIdle
    /\ DataInit
    /\ OrchInit

Next ==
    \/ ClientStateChange
    \/ ResetTxState
    \/ \E params \in SendParams : SendBitcoin(params)
    \/ \E i \in 1..MaxSends, outcome \in SignerOutcomes : SignerReturns(i, outcome)
    \/ \E i \in 1..MaxSends, ok \in BOOLEAN : BroadcastReturns(i, ok)
    \/ BroadcastTransaction(ForeignRawTx)
    \/ \E j \in 1..MaxBroadcasts, ok \in BOOLEAN : StandaloneBroadcastReturns(j, ok)

Spec == Init /\ [][Next]_vars

-----------------------------------------------------------------------------
(* Properties of the send orchestrator (under Spec) *)

InFlight(i) == send[i].pc \in {"signing", "broadcasting"}

SelectedOutpoints(i) == Range(send[i].psbtResult.psbtHex.vin)

\* C4 (as claimed): a sendBitcoin call issued while a previous send is in
\* flight is rejected or queued, that is, it builds no template over the UTXO
\* list and hands none to the signer, and no two in-flight sends of the
\* orchestrator have selected the same UTXO.
C4_NoConcurrentBuilds ==
    /\ \A k \in 1..Len(send) :
          (lastOp = <<"sendBitcoin", k>> /\ \E i \in 1..(k - 1) : InFlight(i)) =>
              (send[k].psbtResult = NoBuild /\ send[k].signerCalls = 0)
    /\ \A i, j \in 1..Len(send) :
          (i < j /\ InFlight(i) /\ InFlight(j)) =>
              SelectedOutpoints(i) \cap SelectedOutpoints(j) = {}

\* C5: the gateway broadcast is attempted only for a send whose signed template
\* finalizePsbt accepted; when finalize fails the state becomes 'error' and the
\* broadcast endpoint has received nothing for that send.
C5_BroadcastOnlyAfterFinalize ==
    /\ \A i \in 1..Len(send) :
          /\ send[i].broadcastCalls > 0 =>
                /\ finalizePsbt(send[i].signed).kind = "ok"
                /\ send[i].rawTx = finalizePsbt(send[i].signed).rawTx
          /\ send[i].failedAt = "finalize" =>
                /\ finalizePsbt(send[i].signed).kind = "throw"
                /\ send[i].broadcastCalls = 0
          /\ (lastOp = <<"signerReturns", i>> /\ send[i].failedAt = "finalize") =>
                /\ txState.step = "error"
                /\ writes = <<"broadcasting", "error">>
    /\ gateway = {send[i].rawTx : i \in {k \in 1..Len(send) : send[k].broadcastCalls > 0}}
                 \cup {bcast[j].rawTx : j \in 1..Len(bcast)}

\* The signer returned a template with an input lacking its witness: finalize
\* has just failed and the gateway has seen no broadcast at all.
C5_Witness ==
    \E i \in 1..Len(send) :
        /\ lastOp = <<"signerReturns", i>>
        /\ send[i].failedAt = "finalize"
        /\ gateway = {}

\* The steps txState went through in the last handler run, from the one before
Chain == <<prevStep>> \o writes

ListedTransitions ==
    { <<"idle", "building">>, <<"building", "signing">>,
      <<"signing", "broadcasting">>, <<"broadcasting", "complete">>,
      <<"building", "error">>, <<"signing", "error">>, <<"broadcasting", "error">> }

\* C6 (as claimed): txState.step changes only along idle->building,
\* building->signing, signing->broadcasting, broadcasting->complete, from
\* building/signing/broadcasting to error, and to idle by reset.
C6_OnlyListedTransitions ==
    \A k \in 1..Len(writes) :
        \/ <<Chain[k], Chain[k + 1]>> \in ListedTransitions
        \/ (Chain[k + 1] = "idle" /\ lastOp[1] = "resetTxState")

\* C7 (as claimed): once the step is 'error', only resetTxState moves it to
\* another step.
C7_ErrorLeftOnlyByReset ==
    \A k \in 1..Len(writes) :
        (Chain[k] = "error" /\ Chain[k + 1] # "error") => lastOp[1] = "resetTxState"

\* C8: resetTxState can be called in every state, and right after it the step
\* is 'idle' and the error, psbtResult and txResult fields are all absent.
C8_ResetClearsAll ==
    /\ ENABLED ResetTxState
    /\ lastOp[1] = "resetTxState" =>
          /\ txState.step = "idle"
          /\ txState.error = "none"
          /\ txState.psbtResult = NoBuild
          /\ txState.txResult = NoTx

\* A reset of a completed send, whose psbtResult and txResult were present.
C8_Witness ==
    /\ lastOp[1] = "resetTxState"
    /\ prevStep = "complete"
    /\ \E i \in 1..Len(send) : send[i].pc = "done"

\* C22: within one sendBitcoin attempt the signer is called only after
\* buildPsbt has succeeded, and finalize and broadcast only after the signer
\* has returned; a failed build calls no signer, and a failed signing calls
\* neither finalize nor broadcast.
C22_StepsSequential ==
    \A i \in 1..Len(send) :
        LET s == send[i]
        IN  /\ s.signerCalls > 0 =>
                  /\ s.psbtResult.kind = "ok"
                  /\ s.psbtResult = buildPsbt([utxos |-> s.params.utxos,
                                               senderAddress |-> s.params.fromAddress,
                                               recipientAddress |-> s.params.toAddress,
                                               amount |-> s.params.amount,
                                               feeRate |-> s.params.feeRate])
            /\ s.failedAt = "build" =>
                  /\ s.signerCalls = 0
                  /\ s.signed = EmptyHex
                  /\ s.broadcastCalls = 0
            /\ (s.signed # EmptyHex \/ s.rawTx # EmptyRaw \/ s.broadcastCalls > 0) =>
                  /\ s.signerCalls = 1
                  /\ s.pc # "signing"
            /\ s.pc = "signing" =>
                  /\ s.signed = EmptyHex
                  /\ s.rawTx = EmptyRaw
                  /\ s.broadcastCalls = 0
            /\ s.failedAt = "sign" =>
                  /\ s.signed = EmptyHex
                  /\ s.rawTx = EmptyRaw
                  /\ s.broadcastCalls = 0
            /\ s.broadcastCalls > 0 => s.rawTx = finalizePsbt(s.signed).rawTx

\* One send failed in its build and another was rejected by the signer.
C22_Witness ==
    \E i, j \in 1..Len(send) :
        /\ send[i].failedAt = "build"
        /\ send[j].failedAt = "sign"
        /\ send[j].signerCalls = 1

\* The txResult of a completed sendBitcoin: the broadcast's transaction id, the
\* raw transaction that was posted, and the fee and change of the send's build
ResultOfSend(i) ==
    /\ send[i].pc = "done"
    /\ send[i].rawTx \in gateway
    /\ txState.txResult = [txid   |-> [hashOf |-> send[i].rawTx],
                           rawTx  |-> send[i].rawTx,
                           fee    |-> send[i].psbtResult.fee,
                           change |-> send[i].psbtResult.change]
    /\ send[i].psbtResult.kind = "ok"

\* The txResult of a completed standalone broadcastTransaction
ResultOfBroadcast(j) ==
    /\ bcast[j].pc = "done"
    /\ bcast[j].rawTx \in gateway
    /\ txState.txResult = [txid   |-> [hashOf |-> bcast[j].rawTx],
                           rawTx  |-> bcast[j].rawTx,
                           fee    |-> 0,
                           change |-> 0]

C25_FieldsMatchStep ==
    /\ (txState.error # "none") <=> (txState.step = "error")
    /\ (txState.txResult # NoTx) <=> (txState.step = "complete")
    /\ (txState.psbtResult # NoBuild) =>
          txState.step \in {"signing", "broadcasting", "complete"}
    /\ (txState.psbtResult # NoBuild) => txState.psbtResult.kind = "ok"

\* A send whose psbtResult was in the state has just failed in its broadcast:
\* the state holds the error alone.
C25_Witness ==
    /\ lastOp[1] = "broadcastReturns"
    /\ prevStep = "broadcasting"
    /\ txState.step = "error"
    /\ txState.psbtResult = NoBuild
    /\ send[lastOp[2]].psbtResult # NoBuild

\* A step that is a sendBitcoin call made while the client is not ready or
\* with a fromAddress that is not Taproot
RejectedSendStep ==
    /\ Len(send') = Len(send) + 1
    /\ \/ ~clientReady
       \/ ~isTaprootAddress(send'[Len(send')].params.fromAddress)

\* C28: sendBitcoin called while the client is not ready, or with a
\* fromAddress that is not Taproot, throws, leaves txState exactly as it was,
\* and calls neither the builder, the signer nor the gateway.
C28_RejectedSendFrame ==
    [][RejectedSendStep =>
          /\ txState' = txState
          /\ gateway' = gateway
          /\ writes' = <<>>
          /\ send'[Len(send')].pc = "thrown"
          /\ send'[Len(send')].psbtResult = NoBuild
          /\ send'[Len(send')].signerCalls = 0
          /\ send'[Len(send')].broadcastCalls = 0
          /\ \A i \in 1..Len(send) : send'[i] = send[i]]_vars

\* A send with a non-Taproot fromAddress was thrown back while an earlier send
\* was with the signer: the state is still 'signing'.
C28_Witness ==
    \E k \in 1..Len(send) :
        /\ lastOp = <<"sendBitcoin", k>>
        /\ send[k].pc = "thrown"
        /\ clientReady
        /\ ~isTaprootAddress(send[k].params.fromAddress)
        /\ prevStep = "signing"
        /\ txState.step = "signing"

-----------------------------------------------------------------------------
(* SpecLive: one send at a time.  The caller issues no reset and no second   *)
(* send while a send is with the signer or the gateway, and no standalone    *)
(* broadcast; the signer and the gateway answer every call in the end        *)
(* (weak fairness of the two returns).                                       *)

NoSendInFlight == \A i \in 1..Len(send) : ~InFlight(i)

SendBitcoinAlone(params) == NoSendInFlight /\ SendBitcoin(params)

ResetTxStateAlone == NoSendInFlight /\ ResetTxState

SignerAnswers == \E i \in 1..MaxSends, outcome \in SignerOutcomes : SignerReturns(i, outcome)

BroadcastAnswers == \E i \in 1..MaxSends, ok \in BOOLEAN : BroadcastReturns(i, ok)

NextLive ==
    \/ ClientStateChange
    \/ ResetTxStateAlone
    \/ \E params \in SendParams : SendBitcoinAlone(params)
    \/ SignerAnswers
    \/ BroadcastAnswers

SpecLive ==
    /\ Init
    /\ [][NextLive]_vars
    /\ WF_vars(SignerAnswers)
    /\ WF_vars(BroadcastAnswers)

\* C29: when the signer and the broadcast each return or fail in the end, and
\* no reset, second send or standalone broadcast is issued meanwhile, a send
\* that has entered 'building' leaves txState in 'complete' or 'error':
\* txState stays in building, signing or broadcasting for no longer.
C29_SendTerminates ==
    (txState.step \in {"building", "signing", "broadcasting"})
        ~> (txState.step \in {"complete", "error"})

\* A send, alone in flight, went through signing and broadcasting to complete.
C29_Witness ==
    \E i \in 1..Len(send) :
        /\ lastOp = <<"broadcastReturns", i>>
        /\ prevStep = "broadcasting"
        /\ txState.step = "complete"
        /\ send[i].pc = "done"

-----------------------------------------------------------------------------
(* SpecData: the read-side aggregator, useBitcoinData (part_002 lines        *)
(* 1005-1291).  The hook holds one gateway client per network; a request is  *)
(* logged with the client it was made on.  As in Spec, an action is one run  *)
(* of a handler up to its next await.  An address snapshot's transaction     *)
(* list is fetched and stored like its UTXO list and is left out.            *)

\* part_002 lines 1014-1019: new MempoolApi("mainnet") / new MempoolApi("signet")
getApiForAddress(address) ==
    IF isTestnetAddress(address) THEN "signet" ELSE "mainnet"

\* The addresses the wallet may track
DataAddresses == {MainTaproot, TestTaproot, OtherChain}

\* The address lists handed to fetchAllAddresses: distinct addresses, any order
AddressLists ==
    UNION { { l \in [1..n -> DataAddresses] : \A i, j \in 1..n : l[i] = l[j] => i = j }
            : n \in 0..Cardinality(DataAddresses) }

\* What the chain of an address holds for it
ChainBalance(address) ==
    IF address = MainTaproot THEN 5000
    ELSE IF address = TestTaproot THEN 3000
    ELSE 0

\* The outcomes of the three requests of fetchAddressData on a gateway: all
\* succeed, or one is rejected (network error, HTTP error).  A gateway of one
\* chain rejects the request for an address of another chain.
GatewayAnswers(endpoint, address) ==
    IF \/ endpoint = "mainnet" /\ address.prefix \in {"bc1p", "bc1q"}
       \/ endpoint = "signet" /\ address.prefix \in {"tb1p", "tb1q"}
    THEN {"ok", "rejected"}
    ELSE {"rejected"}

\* part_002 lines 1027-1065: the value fetchAddressData resolves with
fetchAddressData(address, answer) ==
    IF answer = "ok"
    THEN [address |-> address, balance |-> ChainBalance(address),
          utxos |-> << [txid |-> 1, vout |-> 0, value |-> ChainBalance(address),
                        confirmed |-> TRUE] >>,
          isLoading |-> FALSE, error |-> "none"]
    ELSE [address |-> address, balance |-> 0, utxos |-> <<>>,
          isLoading |-> FALSE, error |-> "Failed to fetch data"]

\* The slot of a fetchAddressData promise that has not resolved
Unresolved(address) ==
    [address |-> address, balance |-> 0, utxos |-> <<>>,
     isLoading |-> TRUE, error |-> "none"]

\* results.forEach: total += data.balance
RECURSIVE SumBalances(_)
SumBalances(results) ==
    IF results = <<>> THEN 0 ELSE Head(results).balance + SumBalances(Tail(results))

\* results.forEach: addressMap[data.address] = data (a later entry overwrites)
AddressMap(results) ==
    [a \in {results[i].address : i \in 1..Len(results)} |->
        LET last == CHOOSE i \in 1..Len(results) :
                        /\ results[i].address = a
                        /\ \A j \in 1..Len(results) : results[j].address = a => j <= i
        IN  results[last]]

NewFetch(addresses, pc) ==
    [addresses |-> addresses,
     results   |-> [i \in 1..Len(addresses) |-> Unresolved(addresses[i])],
     pc        |-> pc]

\* part_002 lines 1070-1077: fetchAllAddresses up to its first await.  The
\* requests of every fetchAddressData are issued in this run.
FetchAllAddresses(addresses) ==
    /\ Len(fetchOps) < MaxFetches
    /\ IF Len(addresses) = 0
       THEN /\ fetchOps' = Append(fetchOps, NewFetch(addresses, "returned"))
            /\ UNCHANGED <<dataState, apiLog>>
       ELSE /\ dataState' = [dataState EXCEPT !.isLoading = TRUE, !.error = "none"]
            /\ apiLog' = apiLog \cup
                  { [endpoint |-> getApiForAddress(addresses[i]),
                     request  |-> "address",
                     address  |-> addresses[i]] : i \in 1..Len(addresses) }
            /\ fetchOps' = Append(fetchOps, NewFetch(addresses, "fetching"))
    /\ UNCHANGED refreshOps
    /\ UNCHANGED <<buildVars, sizeVars, orchVars>>

\* The requests for the i-th address of invocation k are answered:
\* fetchAddressData resolves (lines 1035-1062).  With the last address
\* resolved Promise.all resolves and fetchAllAddresses runs on to the fee
\* request (lines 1084-1095) in the same turn.
FetchAddressDataReturns(k, i, answer) ==
    /\ k \in 1..Len(fetchOps)
    /\ fetchOps[k].pc = "fetching"
    /\ i \in 1..Len(fetchOps[k].addresses)
    /\ fetchOps[k].results[i].isLoading
    /\ answer \in GatewayAnswers(getApiForAddress(fetchOps[k].addresses[i]),
                                  fetchOps[k].addresses[i])
    /\ LET op      == fetchOps[k]
           results == [op.results EXCEPT ![i] = fetchAddressData(op.addresses[i], answer)]
           allDone == \A j \in 1..Len(results) : ~results[j].isLoading
       IN  IF allDone
           THEN /\ fetchOps' = [fetchOps EXCEPT ![k].results = results, ![k].pc = "fees"]
                /\ apiLog' = apiLog \cup
                      { [endpoint |-> getApiForAddress(op.addresses[1]),
                         request  |-> "fees",
                         address  |-> op.addresses[1]] }
           ELSE /\ fetchOps' = [fetchOps EXCEPT ![k].results = results]
                /\ UNCHANGED apiLog
    /\ UNCHANGED <<dataState, refreshOps>>
    /\ UNCHANGED <<buildVars, sizeVars, orchVars>>

\* getRecommendedFees of invocation k is answered: lines 1097-1110
FeesReturn(k, ok) ==
    /\ k \in 1..Len(fetchOps)
    /\ fetchOps[k].pc = "fees"
    /\ IF ok
       THEN /\ dataState' =
                  [addresses    |-> AddressMap(fetchOps[k].results),
                   totalBalance |-> SumBalances(fetchOps[k].results),
                   fees         |-> getApiForAddress(fetchOps[k].addresses[1]),
                   isLoading    |-> FALSE,
                   error        |-> "none"]
            /\ fetchOps' = [fetchOps EXCEPT ![k].pc = "done"]
       ELSE /\ dataState' = [dataState EXCEPT !.isLoading = FALSE,
                                              !.error = "Failed to fetch data"]
            /\ fetchOps' = [fetchOps EXCEPT ![k].pc = "failed"]
    /\ UNCHANGED <<apiLog, refreshOps>>
    /\ UNCHANGED <<buildVars, sizeVars, orchVars>>

\* The number value NaN, which no sum of balances equals
NaN == -1

\* part_002 lines 1136-1139: Object.values(newAddresses).reduce((sum, addr) =>
\* sum + addr.balance, 0) over the entries named by keys.  An entry without a
\* balance field adds undefined, and the sum is NaN from there on.
RECURSIVE ReduceBalances(_, _)
ReduceBalances(newAddresses, keys) ==
    IF keys = {} THEN 0
    ELSE LET a    == CHOOSE x \in keys : TRUE
             rest == ReduceBalances(newAddresses, keys \ {a})
         IN  IF "balance" \notin DOMAIN newAddresses[a] \/ rest = NaN
             THEN NaN
             ELSE rest + newAddresses[a].balance

\* part_002 lines 1119-1131: refreshAddress up to its await.  The entry of
\* the address is spread and flagged; an address the map does not hold gets
\* an entry of the flag alone.  fetchAddressData issues its requests.
RefreshAddress(address) ==
    /\ Len(refreshOps) < MaxRefreshes
    /\ LET prev  == dataState.addresses
           entry == IF address \in DOMAIN prev
                    THEN [f \in DOMAIN prev[address] \cup {"isLoading"} |->
                             IF f = "isLoading" THEN TRUE ELSE prev[address][f]]
                    ELSE [isLoading |-> TRUE]
       IN  dataState' = [dataState EXCEPT !.addresses =
                            [a \in DOMAIN prev \cup {address} |->
                                IF a = address THEN entry ELSE prev[a]]]
    /\ apiLog' = apiLog \cup { [endpoint |-> getApiForAddress(address),
                                request  |-> "address",
                                address  |-> address] }
    /\ refreshOps' = Append(refreshOps, [address |-> address, pc |-> "fetching"])
    /\ UNCHANGED fetchOps
    /\ UNCHANGED <<buildVars, sizeVars, orchVars>>

\* refreshAddress adding the fetched balance to the total it finds
RefreshReturns_AddToTotal(r, answer) ==
    /\ r \in 1..Len(refreshOps)
    /\ refreshOps[r].pc = "fetching"
    /\ answer \in GatewayAnswers(getApiForAddress(refreshOps[r].address),
                                  refreshOps[r].address)
    /\ LET address      == refreshOps[r].address
           prev         == dataState.addresses
           data         == fetchAddressData(address, answer)
           newAddresses == [a \in DOMAIN prev \cup {address} |->
                               IF a = address THEN data ELSE prev[a]]
       IN  dataState' = [dataState EXCEPT !.addresses = newAddresses,
                                          !.totalBalance = @ + data.balance]
    /\ refreshOps' = [refreshOps EXCEPT ![r].pc = "done"]
    /\ UNCHANGED <<fetchOps, apiLog>>
    /\ UNCHANGED <<buildVars, sizeVars, orchVars>>

\* The requests of refreshAddress invocation r are answered: lines 1133-1149,
\* the entry is replaced and the total recomputed over the map as it is now
RefreshReturns(r, answer) ==
    /\ r \in 1..Len(refreshOps)
    /\ refreshOps[r].pc = "fetching"
    /\ answer \in GatewayAnswers(getApiForAddress(refreshOps[r].address),
                                  refreshOps[r].address)
    /\ LET address      == refreshOps[r].address
           prev         == dataState.addresses
           data         == fetchAddressData(address, answer)
           newAddresses == [a \in DOMAIN prev \cup {address} |->
                               IF a = address THEN data ELSE prev[a]]
           newTotal     == ReduceBalances(newAddresses, DOMAIN newAddresses)
       IN  dataState' = [dataState EXCEPT !.addresses = newAddresses,
                                          !.totalBalance = newTotal]
    /\ refreshOps' = [refreshOps EXCEPT ![r].pc = "done"]
    /\ UNCHANGED <<fetchOps, apiLog>>
    /\ UNCHANGED <<buildVars, sizeVars, orchVars>>

InitData ==
    /\ DataInit
    /\ BuildIdle
    /\ SizeIdle
    /\ OrchInit

NextData ==
    \/ \E addresses \in AddressLists : FetchAllAddresses(addresses)
    \/ \E k \in 1..MaxFetches, i \in 1..Cardinality(DataAddresses), answer \in {"ok", "rejected"} :
          FetchAddressDataReturns(k, i, answer)
    \/ \E k \in 1..MaxFetches, ok \in BOOLEAN : FeesReturn(k, ok)
    \/ \E address \in DataAddresses : RefreshAddress(address)
    \/ \E r \in 1..MaxRefreshes, answer \in {"ok", "rejected"} : RefreshReturns(r, answer)

SpecData == InitData /\ [][NextData]_vars

-----------------------------------------------------------------------------
(* Properties of the aggregator (under SpecData) *)

\* The network an address belongs to by its prefix (the hook's comment at
\* part_002 line 1012: tb1p/tb1q test network, bc1p/bc1q mainnet)
PrefixNetwork(address) ==
    IF address.prefix \in {"bc1p", "bc1q"} THEN "mainnet"
    ELSE IF address.prefix \in {"tb1p", "tb1q"} THEN "signet"
    ELSE "unsupported"

\* The balance an entry of the addresses map shows; an entry that is being
\* refreshed for the first time shows none
StoredBalance(entry) ==
    IF "balance" \in DOMAIN entry THEN entry.balance ELSE 0

RECURSIVE SumOver(_, _)
SumOver(addressMap, S) ==
    IF S = {} THEN 0
    ELSE LET a == CHOOSE x \in S : TRUE
         IN  StoredBalance(addressMap[a]) + SumOver(addressMap, S \ {a})

\* The sum of the stored balances of the addresses of one network
NetworkTotal(network) ==
    SumOver(dataState.addresses,
            {a \in DOMAIN dataState.addresses : PrefixNetwork(a) = network})

\* No fetchAllAddresses and no refreshAddress invocation is awaiting an answer
NoFetchInFlight ==
    /\ \A k \in 1..Len(fetchOps) : fetchOps[k].pc \in {"returned", "done", "failed"}
    /\ \A r \in 1..Len(refreshOps) : refreshOps[r].pc = "done"

\* C11: every address request for a mainnet or test-network address goes to
\* the gateway of the address's own network, and with one address of each
\* tracked and no fetch in flight totalBalance is a sum of balances of one
\* network only.
C11_NoCrossNetworkSum ==
    /\ \A r \in apiLog :
          (r.request = "address" /\ r.address \in {MainTaproot, TestTaproot}) =>
              r.endpoint = PrefixNetwork(r.address)
    /\ (NoFetchInFlight /\ DOMAIN dataState.addresses = {MainTaproot, TestTaproot}) =>
          dataState.totalBalance \in {NetworkTotal("mainnet"), NetworkTotal("signet")}

\* C12: an address of no known prefix is treated as unsupported: getNetwork
\* and getApiForAddress give it no network and no gateway, and no request is
\* made for it.
C12_FailsClosed ==
    \A k \in 1..Len(fetchOps) :
        \A i \in 1..Len(fetchOps[k].addresses) :
            LET a == fetchOps[k].addresses[i]
            IN  (PrefixNetwork(a) = "unsupported") =>
                    /\ getNetwork(a) \notin {"bitcoin", "testnet"}
                    /\ getApiForAddress(a) \notin {"mainnet", "signet"}
                    /\ \A r \in apiLog : r.address # a

\* C13: when the fetch of one address of a fetchAllAddresses batch fails, the
\* snapshots of the other addresses are those their own fetches returned and
\* the batch ends with state.error set.
C13_FailureFlagsBatch ==
    \A k \in 1..Len(fetchOps) :
        LET op == fetchOps[k]
        IN  (/\ op.pc \in {"done", "failed"}
             /\ \E i \in 1..Len(op.results) : op.results[i].error # "none") =>
                /\ dataState.error # "none"
                /\ (op.pc = "done") =>
                      \A j \in 1..Len(op.results) :
                          (op.results[j].error = "none") =>
                              dataState.addresses[op.addresses[j]] =
                                  fetchAddressData(op.addresses[j], "ok")

====
